---- MODULE Spec2Model ----
(***************************************************************************)
(* A model of mdformat-obsidian: the wikilink/embed inline scanner, the    *)
(* callout block scanner and renderer, and the paragraph canonicalizer.    *)
(*                                                                         *)
(* Text is a sequence of one-character strings.  Offsets are the 0-based   *)
(* offsets of the Python source; At(s, k) reads the character at offset k. *)
(***************************************************************************)
EXTENDS Integers, Sequences, FiniteSets, TLC

\* ------------------------------------------------------------------ bounds
MaxSrcLen == 6
MaxPieces == 3
MaxBodyLines == 2
MaxDepth == 1
MaxFlatItems == 12

\* ------------------------------------------------------------- characters
BSL == "\\"
LinkAlphabet == {BSL, "[", "]", "!", " "}

\* --------------------------------------------------------- string helpers
\* All sequences over alphabet A of length at most n.
RECURSIVE StringsUpTo(_, _)
StringsUpTo(A, n) ==
    IF n = 0 THEN {<<>>}
    ELSE LET shorter == StringsUpTo(A, n - 1)
         IN shorter \cup {Append(s, c) : s \in {t \in shorter : Len(t) = n - 1}, c \in A}

\* s[a:b] of Python for 0 <= a, b (clamped to the length).
Slice(s, a, b) ==
    LET hi == IF b > Len(s) THEN Len(s) ELSE b
    IN IF a >= hi THEN <<>> ELSE SubSeq(s, a + 1, hi)

\* s[a:] of Python.
SliceFrom(s, a) == Slice(s, a, Len(s))

\* s.startswith(p)
StartsWith(s, p) == Len(s) >= Len(p) /\ SubSeq(s, 1, Len(p)) = p

\* s.index(sub, from): the least offset k >= from where sub occurs, -1 for
\* Python's ValueError.
RECURSIVE IndexOf(_, _, _)
IndexOf(s, sub, from) ==
    IF from + Len(sub) > Len(s) THEN -1
    ELSE IF SubSeq(s, from + 1, from + Len(sub)) = sub THEN from
    ELSE IndexOf(s, sub, from + 1)

\* Whitespace that str.strip() and the regular expression class \s remove.
IsSpace(c) == c \in {" ", "\t", "\n"}

\* s.rstrip(), s.lstrip() and s.strip() of Python.
RECURSIVE RStrip(_)
RStrip(s) ==
    IF s # <<>> /\ IsSpace(s[Len(s)]) THEN RStrip(SubSeq(s, 1, Len(s) - 1)) ELSE s

RECURSIVE LStrip(_)
LStrip(s) == IF s # <<>> /\ IsSpace(s[1]) THEN LStrip(Tail(s)) ELSE s

Strip(s) == LStrip(RStrip(s))

\* ------------------------------------------------------------------ state
VARIABLES
    src,      \* StateInline.src
    pos,      \* StateInline.pos
    tokens,   \* StateInline.tokens: the tokens pushed so far
    lret,     \* the last return of _obsidian_links: "none", "True", "False"
    lsilent,  \* the silent argument of the last call
    lstart,   \* state.pos when the last call was made
    lntok,    \* len(state.tokens) when the last call was made
    esc,      \* the last call of is_escaped: [called, at, raised, value]
    ptext,    \* paragraph: the text inline_node.render(context) returned
    pout,     \* paragraph: the text paragraph() returned
    prendered, \* paragraph: whether paragraph() has returned
    doc,      \* block parser: the lines of StateBlock.src
    bstate,   \* StateBlock: [tokens, parentType, lineMax, line]
    ccall,    \* the last call of alert_logic: [ret, silent, startLine, endLine, pre]
    crender,  \* the rendering of the callout emitted last: [done, text]
    fsrc,     \* formatter: the lines of the document given to it
    fout,     \* formatter: the lines of the output of each pass made so far
    lnode,    \* list renderer: the list node being rendered
    lbudget,  \* context.env["indent_width"], the indent budget
    lres      \* the last list rendering: [done, raised, text, seen, before]

linkVars == <<src, pos, tokens, lret, lsilent, lstart, lntok, esc>>
paraVars == <<ptext, pout, prendered>>
blockVars == <<doc, bstate, ccall, crender, fsrc, fout>>
listVars == <<lnode, lbudget, lres>>
vars == <<linkVars, paraVars, blockVars, listVars>>

\* ---------------------------------------------------------- escape scanner
\* state.src[k] of Python for a possibly negative k: a negative offset counts
\* from the end of the buffer.  "IndexError" stands for the raised exception.
PyIndex(s, k) ==
    IF k >= 0 THEN (IF k < Len(s) THEN s[k + 1] ELSE "IndexError")
    ELSE (IF -k <= Len(s) THEN s[Len(s) + k + 1] ELSE "IndexError")

\* The while loop of is_escaped: back_pos is decremented before the read, so
\* the read at back_pos = 0 is state.src[-1].
RECURSIVE CountBackslashes(_, _, _)
CountBackslashes(s, back_pos, backslashes) ==
    IF back_pos >= 0
    THEN LET ch == PyIndex(s, back_pos - 1)
         IN IF ch = "IndexError" THEN [raised |-> TRUE, n |-> backslashes]
            ELSE IF ch = BSL THEN CountBackslashes(s, back_pos - 1, backslashes + 1)
            ELSE [raised |-> FALSE, n |-> backslashes]
    ELSE [raised |-> FALSE, n |-> backslashes]

is_escaped(s, back_pos, mod) ==
    LET c == CountBackslashes(s, back_pos, 0)
    IN [raised |-> c.raised,
        value  |-> IF c.raised \/ c.n = 0 THEN FALSE ELSE (c.n % 2) # mod]

\* ------------------------------------------------------ wikilink scanner
\* The search for the closing "]]": an escaped occurrence is skipped and the
\* search resumes two characters later.  -1: no closing found.
RECURSIVE FindClosing(_, _)
FindClosing(s, from) ==
    LET end == IndexOf(s, <<"]", "]">>, from)
    IN IF end = -1 THEN -1
       ELSE IF is_escaped(s, end, 0).value THEN FindClosing(s, end + 2)
       ELSE end

\* A scanner that trims the link text.
LinkTextStripped(s, a, b) == Strip(Slice(s, a, b))

\* text = state.src[state.pos + pre_len : end]
LinkText(s, a, b) == Slice(s, a, b)

\* _obsidian_links(state, silent) as a function of the state it reads:
\* [matched, pos, push] with push the sequence of tokens it pushes.
ScanLinks(s, p, silent) ==
    LET src_part == SliceFrom(s, p)
        declined == [matched |-> FALSE, pos |-> p, push |-> <<>>]
    IN IF ~(StartsWith(src_part, <<"[", "[">>) \/ StartsWith(src_part, <<"!", "[", "[">>))
       THEN declined
       ELSE LET pre_len == 2 + (IF src_part[1] = "!" THEN 1 ELSE 0)
            IN IF is_escaped(s, p, 0).value THEN declined
               ELSE LET end == FindClosing(s, p + pre_len)
                    IN IF end = -1 THEN declined
                       ELSE LET text == LinkText(s, p + pre_len, end)
                                ttype == IF src_part[1] = "!" THEN "embed_file"
                                         ELSE "internal_link"
                            IN [matched |-> TRUE,
                                pos     |-> end + 2,
                                push    |-> IF silent THEN <<>>
                                            ELSE <<[type |-> ttype, content |-> text]>>]

NoEsc == [called |-> FALSE, at |-> 0, raised |-> FALSE, value |-> FALSE]

\* No document is being parsed.
NoCall == [ret |-> "none", silent |-> FALSE, startLine |-> 0, endLine |-> 0,
           pre |-> [tokens |-> <<>>, parentType |-> "root", lineMax |-> 0, line |-> 0]]

NoRender == [done |-> FALSE, text |-> <<>>]

BlockIdle ==
    /\ doc = <<>>
    /\ bstate = [tokens |-> <<>>, parentType |-> "root", lineMax |-> 0, line |-> 0]
    /\ ccall = NoCall
    /\ crender = NoRender
    /\ fsrc = <<>>
    /\ fout = <<>>

\* No list is being rendered.
NoListRender ==
    [done |-> FALSE, raised |-> FALSE, text |-> <<>>, seen |-> <<>>, before |-> 0]

ListIdle == lnode = <<>> /\ lbudget = 0 /\ lres = NoListRender

\* No paragraph is being rendered.
ParaIdle == ptext = <<>> /\ pout = <<>> /\ prendered = FALSE

\* No inline text is being scanned.
LinksIdle ==
    /\ src = <<>> /\ pos = 0 /\ tokens = <<>> /\ lret = "none"
    /\ lsilent = FALSE /\ lstart = 0 /\ lntok = 0 /\ esc = NoEsc

InitLinks ==
    /\ src \in StringsUpTo(LinkAlphabet, MaxSrcLen)
    /\ pos \in 0..Len(src)
    /\ tokens = <<>>
    /\ lret = "none"
    /\ lsilent = FALSE
    /\ lstart = 0
    /\ lntok = 0
    /\ esc = NoEsc
    /\ ParaIdle
    /\ BlockIdle
    /\ ListIdle

\* The inline rule invoked at state.pos: by the host's tokenizer at the
\* position it has reached, and again at the position a match advanced to.
ObsidianLinks(silent) ==
    /\ lret # "False"
    /\ pos < Len(src)
    /\ LET r == ScanLinks(src, pos, silent)
       IN /\ pos' = r.pos
          /\ tokens' = tokens \o r.push
          /\ lret' = IF r.matched THEN "True" ELSE "False"
    /\ lsilent' = silent
    /\ lstart' = pos
    /\ lntok' = Len(tokens)
    /\ UNCHANGED <<src, esc, paraVars, blockVars, listVars>>

NextLinks == \E silent \in BOOLEAN : ObsidianLinks(silent)

SpecLinks == InitLinks /\ [][NextLinks]_vars

\* is_escaped called at an offset of the buffer.  The inline rules run on
\* inline content, which is never empty.
IsEscapedCall(i) ==
    /\ ~esc.called
    /\ src # <<>>
    /\ LET r == is_escaped(src, i, 0)
       IN esc' = [called |-> TRUE, at |-> i, raised |-> r.raised, value |-> r.value]
    /\ UNCHANGED <<src, pos, tokens, lret, lsilent, lstart, lntok, paraVars, blockVars, listVars>>

NextEscape == \E i \in 0..Len(src) : IsEscapedCall(i)

SpecEscape == InitLinks /\ [][NextEscape]_vars

\* ------------------------------------------------ paragraph canonicalizer
\* s.split("\n"): the lines of s, at least one.
RECURSIVE SplitLines(_)
SplitLines(s) ==
    LET k == IndexOf(s, <<"\n">>, 0)
    IN IF k = -1 THEN <<s>>
       ELSE <<Slice(s, 0, k)>> \o SplitLines(SliceFrom(s, k + 1))

\* "\n".join(lines)
RECURSIVE JoinLines(_)
JoinLines(lines) ==
    IF lines = <<>> THEN <<>>
    ELSE IF Len(lines) = 1 THEN lines[1]
    ELSE lines[1] \o <<"\n">> \o JoinLines(Tail(lines))

\* The decimal character reference of a whitespace character.
Decimal(c) ==
    IF c = " " THEN <<"&", "#", "3", "2", ";">>
    ELSE IF c = "\t" THEN <<"&", "#", "9", ";">>
    ELSE <<"&", "#", "1", "0", ";">>

\* decimalify_leading and decimalify_trailing of the host renderer, as
\* paragraph() applies them: a leading, then a trailing whitespace character
\* is replaced by its decimal character reference.
decimalify_leading(text) ==
    IF text = <<>> \/ ~IsSpace(text[1]) THEN text
    ELSE Decimal(text[1]) \o Tail(text)

decimalify_trailing(text) ==
    IF text = <<>> \/ ~IsSpace(text[Len(text)]) THEN text
    ELSE SubSeq(text, 1, Len(text) - 1) \o Decimal(text[Len(text)])

\* separate_indent(line): the leading whitespace and the rest.
separate_indent(line) ==
    LET content == LStrip(line)
    IN [indent |-> SubSeq(line, 1, Len(line) - Len(content)), content |-> content]

IsBlank(c) == c \in {" ", "\t"}

\* The tail "( |\t|$)" of the guards' patterns, at offset k of the line.
BlankOrEnd(l, k) == k >= Len(l) \/ IsBlank(l[k + 1])

\* The number of leading characters of l that are in the set C.
RECURSIVE LeadingRun(_, _)
LeadingRun(l, C) ==
    IF l # <<>> /\ l[1] \in C THEN 1 + LeadingRun(Tail(l), C) ELSE 0

\* line.replace(c, "\\" + c, 1): a backslash before the first c.
EscapeFirst(l, c) ==
    LET k == IndexOf(l, <<c>>, 0)
    IN IF k = -1 THEN l ELSE Slice(l, 0, k) \o <<BSL>> \o SliceFrom(l, k)

\* line.replace(" ", "").replace("\t", "")
RECURSIVE RemoveBlanks(_)
RemoveBlanks(l) ==
    IF l = <<>> THEN <<>>
    ELSE IF IsBlank(l[1]) THEN RemoveBlanks(Tail(l))
    ELSE <<l[1]>> \o RemoveBlanks(Tail(l))

\* line.strip(" \t")
RECURSIVE StripBlanks(_)
StripBlanks(l) ==
    IF l # <<>> /\ IsBlank(l[1]) THEN StripBlanks(Tail(l))
    ELSE IF l # <<>> /\ IsBlank(l[Len(l)]) THEN StripBlanks(SubSeq(l, 1, Len(l) - 1))
    ELSE l

\* all(c == ch for c in l)
AllAre(l, ch) == \A k \in 1..Len(l) : l[k] = ch

\* re.match(r"#{1,6}( |\t|$)", line)
GuardATX(l) ==
    IF \E k \in 1..6 : LeadingRun(l, {"#"}) >= k /\ BlankOrEnd(l, k)
    THEN <<BSL>> \o l ELSE l

\* line.startswith(">")
GuardQuote(l) == IF StartsWith(l, <<">">>) THEN <<BSL>> \o l ELSE l

\* re.match(r"[-*+]( |\t|$)", line)
GuardBullet(l) ==
    IF l # <<>> /\ l[1] \in {"-", "*", "+"} /\ BlankOrEnd(l, 1)
    THEN <<BSL>> \o l ELSE l

Digits == {"0", "1", "2", "3", "4", "5", "6", "7", "8", "9"}

\* re.match(r"[0-9]+<c>( |\t|$)", line) for the delimiter c
MatchOrdered(l, c) ==
    LET n == LeadingRun(l, Digits)
    IN n >= 1 /\ Len(l) > n /\ l[n + 1] = c /\ BlankOrEnd(l, n + 1)

\* An ordered-marker guard that escapes the start of the line.
GuardOrderedAtStart(l) ==
    IF MatchOrdered(l, ")") \/ MatchOrdered(l, ".") THEN <<BSL>> \o l ELSE l

\* The two ordered-marker guards: ")" first, then ".".
GuardOrdered(l) ==
    LET l1 == IF MatchOrdered(l, ")") THEN EscapeFirst(l, ")") ELSE l
    IN IF MatchOrdered(l1, ".") THEN EscapeFirst(l1, ".") ELSE l1

\* A thematic-break guard that needs more than three characters.
GuardThematicOffByOne(l) ==
    LET space_removed == RemoveBlanks(l)
    IN IF Len(space_removed) > 3
       THEN (IF AllAre(space_removed, "*") THEN EscapeFirst(l, "*")
             ELSE IF AllAre(space_removed, "-") THEN EscapeFirst(l, "-")
             ELSE IF AllAre(space_removed, "_") THEN EscapeFirst(l, "_")
             ELSE l)
       ELSE l

\* The thematic-break guard.
GuardThematic(l) ==
    LET space_removed == RemoveBlanks(l)
    IN IF Len(space_removed) >= 3
       THEN (IF AllAre(space_removed, "*") THEN EscapeFirst(l, "*")
             ELSE IF AllAre(space_removed, "-") THEN EscapeFirst(l, "-")
             ELSE IF AllAre(space_removed, "_") THEN EscapeFirst(l, "_")
             ELSE l)
       ELSE l

\* The setext-underline guard.
GuardSetext(l) ==
    LET stripped == StripBlanks(l)
    IN IF AllAre(stripped, "-") THEN EscapeFirst(l, "-")
       ELSE IF AllAre(stripped, "=") THEN EscapeFirst(l, "=")
       ELSE l

\* The openers of HTML_SEQUENCES that can break a paragraph, as far as the
\* characters of the model can write them: the processing instruction "<?".
HtmlBlockOpener(l) == StartsWith(l, <<"<", "?">>)

GuardHtml(l) ==
    IF HtmlBlockOpener(l) THEN <<" ", " ", " ", " ">> \o l ELSE l

\* The body of the loop over the lines of the paragraph.
GuardLine(line) ==
    LET s == separate_indent(RStrip(line))
    IN s.indent \o
       GuardHtml(GuardSetext(GuardThematic(GuardOrdered(
           GuardBullet(GuardQuote(GuardATX(s.content)))))))

MapGuard(lines) == [k \in 1..Len(lines) |-> GuardLine(lines[k])]

\* The lines the loop of paragraph() runs over.
ParaLines(text) == SplitLines(decimalify_trailing(decimalify_leading(text)))

\* paragraph(node, context) for the text its inline child renders to, with
\* the default wrap mode ("keep": context.do_wrap is false).
paragraph(text) == JoinLines(MapGuard(ParaLines(text)))

\* The texts a paragraph is rendered from: up to MaxPieces pieces, each a
\* character or one of three longer runs.
ParaChars ==
    {"#", ">", "-", "*", "+", "_", "=", "1", ")", ".", " ", "\t", "\n", "a",
     "<", "?", BSL}

ParaPieces ==
    {<<c>> : c \in ParaChars} \cup {<<"#", "#", "#", "#", "#">>, <<"_", " ", "_">>, <<"\n", " ">>}

RECURSIVE ParaTexts(_)
ParaTexts(n) ==
    IF n = 0 THEN {<<>>}
    ELSE LET shorter == ParaTexts(n - 1)
         IN shorter \cup {s \o q : s \in shorter, q \in ParaPieces}

InitPara ==
    /\ ptext \in ParaTexts(MaxPieces)
    /\ pout = <<>>
    /\ prendered = FALSE
    /\ LinksIdle
    /\ BlockIdle
    /\ ListIdle

Paragraph ==
    /\ ~prendered
    /\ pout' = paragraph(ptext)
    /\ prendered' = TRUE
    /\ UNCHANGED <<ptext, linkVars, blockVars, listVars>>

NextPara == Paragraph

SpecPara == InitPara /\ [][NextPara]_vars

\* ------------------------------------------------- callout block scanner
OBSIDIAN_CALLOUT_PREFIX == "obsidian_callout"

\* INLINE_SEP
INLINE_SEP == <<"\n", "\n">>

\* str.lower() on the characters of the model.
LowerChar(c) ==
    IF c = "A" THEN "a" ELSE IF c = "B" THEN "b" ELSE IF c = "R" THEN "r"
    ELSE IF c = "T" THEN "t" ELSE c

Lower(s) == [k \in 1..Len(s) |-> LowerChar(s[k])]

\* state.src of the block parser: the lines joined by newlines.
BlockSrc(d) == JoinLines(d)

\* state.bMarks[n]: the offset at which line n (0-based) starts.
RECURSIVE bMarks(_, _)
bMarks(d, n) == IF n = 0 THEN 0 ELSE bMarks(d, n - 1) + Len(d[n]) + 1

\* state.tShift[n] and state.sCount[n]: the leading spaces of line n.
tShift(d, n) == LeadingRun(d[n + 1], {" "})

\* state.isEmpty(n)
IsEmptyLine(d, n) == tShift(d, n) >= Len(d[n + 1])

\* is_code_block(state, line) at block indent 0.
is_code_block(d, n) == tShift(d, n) - 0 >= 4

\* The regular expression PATTERN followed by the custom_title group,
\* matched (ignoring case) at the start of text.  The title is the longest
\* run of characters other than "]" after "[!": with it non-empty and a "]"
\* behind it the two optional backslashes never change the outcome of the
\* match; the backslash before "]" is part of the title.
MatchHeader(text) ==
    LET p0    == IF StartsWith(text, <<BSL>>) THEN 1 ELSE 0
        t0    == p0 + 2
        close == IndexOf(text, <<"]">>, t0)
        nomatch == [matched |-> FALSE, title |-> <<>>, fold |-> <<>>,
                    custom_title |-> <<>>, end |-> 0]
    IN IF ~StartsWith(SliceFrom(text, p0), <<"[", "!">>) THEN nomatch
       ELSE IF close = -1 \/ close = t0 THEN nomatch
       ELSE LET f    == close + 1
                fold == IF f < Len(text) /\ text[f + 1] \in {"-", "+"}
                        THEN <<text[f + 1]>> ELSE <<>>
                c    == f + Len(fold)
                rest == SliceFrom(text, c)
                nl   == IndexOf(rest, <<"\n">>, 0)
                eol  == IF nl = -1 THEN Len(rest) ELSE nl
                lead == IF StartsWith(rest, <<" ">>) THEN 1
                        ELSE IF StartsWith(Lower(rest), <<"<", "b", "r", ">">>) THEN 4
                        ELSE 0
                has  == lead > 0 /\ eol > lead
            IN [matched |-> TRUE,
                title |-> Slice(text, t0, close),
                fold |-> fold,
                custom_title |-> IF has THEN Slice(rest, 0, eol) ELSE <<>>,
                end |-> IF has THEN c + eol ELSE c]

\* A token of the block parser.
Token(type, nesting, attrs, map, markup, content) ==
    [type |-> type, nesting |-> nesting, attrs |-> attrs, map |-> map,
     markup |-> markup, content |-> content]

\* new_token: the pair of tokens that opens and closes a scope.
OpenToken(name, attrs, map, markup) ==
    Token(name \o "_open", 1, attrs, map, markup, <<>>)

CloseToken(name) == Token(name \o "_close", -1, {}, <<>>, <<>>, <<>>)

\* parse_possible_blockquote_admon: "False", "True" or the CalloutData, and
\* the state it leaves.
parse_possible_blockquote_admon(d, st, start_line, end_line, silent) ==
    LET start == bMarks(d, start_line) + tShift(d, start_line)
        text  == SliceFrom(BlockSrc(d), start)
        match == MatchHeader(text)
        none  == [old_state |-> [parentType |-> st.parentType, lineMax |-> st.lineMax],
                  meta_text |-> <<>>, fold |-> <<>>, custom_title |-> <<>>,
                  next_line |-> end_line]
    IN IF is_code_block(d, start_line) THEN [kind |-> "False", state |-> st, data |-> none]
       ELSE IF ~match.matched THEN [kind |-> "False", state |-> st, data |-> none]
       ELSE IF silent THEN [kind |-> "True", state |-> st, data |-> none]
       ELSE [kind  |-> "CalloutData",
             state |-> [st EXCEPT !.parentType = OBSIDIAN_CALLOUT_PREFIX],
             data  |-> [old_state |-> [parentType |-> st.parentType,
                                       lineMax |-> st.lineMax],
                        meta_text |-> match.title,
                        fold |-> match.fold,
                        custom_title |-> match.custom_title,
                        next_line |-> end_line]]

\* state.skipEmptyLines(from)
RECURSIVE skipEmptyLines(_, _, _)
skipEmptyLines(d, from, lineMax) ==
    IF from < lineMax /\ IsEmptyLine(d, from) THEN skipEmptyLines(d, from + 1, lineMax)
    ELSE from

\* The host's paragraph rule: the lines up to the next empty line, as one
\* inline token between paragraph_open and paragraph_close.
RECURSIVE ParagraphEnd(_, _, _)
ParagraphEnd(d, nextLine, lineMax) ==
    IF nextLine < lineMax /\ ~IsEmptyLine(d, nextLine)
    THEN ParagraphEnd(d, nextLine + 1, lineMax)
    ELSE nextLine

StripLines(lines) == [k \in 1..Len(lines) |-> StripBlanks(lines[k])]

ParagraphRule(d, st, startLine) ==
    LET nextLine == ParagraphEnd(d, startLine + 1, st.lineMax)
        content  == JoinLines(StripLines(SubSeq(d, startLine + 1, nextLine)))
    IN [st EXCEPT
          !.tokens = st.tokens \o
              <<Token("paragraph_open", 1, {}, <<startLine, nextLine>>, <<>>, <<>>),
                Token("inline", 0, {}, <<startLine, nextLine>>, <<>>, content),
                Token("paragraph_close", -1, {}, <<>>, <<>>, <<>>)>>,
          !.line = nextLine]

\* The host's code rule, for a line the callout rule declined as code: the
\* indented lines as one code_block token.
RECURSIVE CodeEnd(_, _, _)
CodeEnd(d, nextLine, endLine) ==
    IF nextLine < endLine /\ (IsEmptyLine(d, nextLine) \/ is_code_block(d, nextLine))
    THEN CodeEnd(d, nextLine + 1, endLine)
    ELSE nextLine

CodeRule(d, st, startLine, endLine) ==
    LET last == CodeEnd(d, startLine + 1, endLine)
    IN [st EXCEPT
          !.tokens = st.tokens \o
              <<Token("code_block", 0, {}, <<startLine, last>>, <<>>,
                      JoinLines(SubSeq(d, startLine + 1, last)))>>,
          !.line = last]

RECURSIVE tokenize(_, _, _, _)
RECURSIVE alert_logic(_, _, _, _, _)

\* A callout whose fold marker is not looked at.
format_never_folded(d, st, start_line, admonition) ==
    LET tag        == Lower(admonition.meta_text)
        title_line == <<"[", "!">> \o tag \o <<"]">> \o admonition.fold
                      \o INLINE_SEP \o admonition.custom_title
        head == <<OpenToken(OBSIDIAN_CALLOUT_PREFIX,
                     {<<"data-callout-metadata", "">>, <<"data-callout-fold", "">>,
                      <<"data-callout", tag>>, <<"class", "callout">>},
                     <<start_line, admonition.next_line>>, title_line),
                  OpenToken(OBSIDIAN_CALLOUT_PREFIX \o "_title",
                            {<<"class", "callout-title">>}, <<>>, <<>>),
                  OpenToken(OBSIDIAN_CALLOUT_PREFIX \o "_title_inner",
                            {<<"class", "callout-title-inner">>}, <<>>, <<>>),
                  Token("inline", 0, {}, <<>>, <<>>, Strip(admonition.custom_title)),
                  CloseToken(OBSIDIAN_CALLOUT_PREFIX \o "_title_inner"),
                  CloseToken(OBSIDIAN_CALLOUT_PREFIX \o "_title"),
                  OpenToken(OBSIDIAN_CALLOUT_PREFIX \o "_content",
                            {<<"class", "callout-content">>}, <<>>, <<>>)>>
        body == tokenize(d, [st EXCEPT !.tokens = st.tokens \o head],
                         start_line + 1, admonition.next_line)
    IN [tokens |-> body.tokens \o
                   <<CloseToken(OBSIDIAN_CALLOUT_PREFIX \o "_content"),
                     CloseToken(OBSIDIAN_CALLOUT_PREFIX)>>,
        parentType |-> "div",
        lineMax |-> admonition.old_state.lineMax,
        line |-> admonition.next_line]

\* format_obsidian_callout_markup(state, start_line, admonition)
format_obsidian_callout_markup(d, st, start_line, admonition) ==
    LET tag        == Lower(admonition.meta_text)
        folded     == admonition.fold # <<>>
        title_line == <<"[", "!">> \o tag \o <<"]">> \o admonition.fold
                      \o INLINE_SEP \o admonition.custom_title
        head ==
            <<OpenToken(OBSIDIAN_CALLOUT_PREFIX,
                  {<<"data-callout-metadata", "">>,
                   <<"data-callout-fold", IF folded THEN "-" ELSE "">>,
                   <<"data-callout", tag>>,
                   <<"class", IF folded THEN "callout is-collapsible is-collapsed"
                              ELSE "callout">>},
                  <<start_line, admonition.next_line>>, title_line),
              OpenToken(OBSIDIAN_CALLOUT_PREFIX \o "_title",
                        {<<"class", "callout-title">>}, <<>>, <<>>),
              OpenToken(OBSIDIAN_CALLOUT_PREFIX \o "_title_inner",
                        {<<"class", "callout-title-inner">>}, <<>>, <<>>),
              Token("inline", 0, {}, <<>>, <<>>, Strip(admonition.custom_title)),
              CloseToken(OBSIDIAN_CALLOUT_PREFIX \o "_title_inner")>>
            \o (IF folded
                THEN <<OpenToken(OBSIDIAN_CALLOUT_PREFIX \o "_collapsed",
                                 {<<"class", "callout-fold is-collapsed">>}, <<>>, <<>>),
                       CloseToken(OBSIDIAN_CALLOUT_PREFIX \o "_collapsed")>>
                ELSE <<>>)
            \o <<CloseToken(OBSIDIAN_CALLOUT_PREFIX \o "_title"),
                 OpenToken(OBSIDIAN_CALLOUT_PREFIX \o "_content",
                     {<<"class", "callout-content">>}
                     \cup (IF folded THEN {<<"style", "display: none;">>} ELSE {}),
                     <<>>, <<>>)>>
        body == tokenize(d, [st EXCEPT !.tokens = st.tokens \o head],
                         start_line + 1, admonition.next_line)
    IN [tokens |-> body.tokens \o
                   <<CloseToken(OBSIDIAN_CALLOUT_PREFIX \o "_content"),
                     CloseToken(OBSIDIAN_CALLOUT_PREFIX)>>,
        parentType |-> "div",
        lineMax |-> admonition.old_state.lineMax,
        line |-> admonition.next_line]

\* alert_logic(state, startLine, endLine, silent): [ret, state]
alert_logic(d, st, startLine, endLine, silent) ==
    LET result == parse_possible_blockquote_admon(d, st, startLine, endLine, silent)
    IN IF result.kind = "CalloutData"
       THEN [ret |-> TRUE,
             state |-> format_obsidian_callout_markup(d, result.state, startLine,
                                                      result.data)]
       ELSE [ret |-> result.kind = "True", state |-> result.state]

\* state.md.block.tokenize(state, startLine, endLine): the host's loop over
\* the block rules, of which the callout rule and the paragraph rule apply to
\* the lines of the model.
tokenize(d, st, startLine, endLine) ==
    LET line == skipEmptyLines(d, startLine, st.lineMax)
        st0  == [st EXCEPT !.line = line]
    IN IF line >= endLine THEN st0
       ELSE LET r   == alert_logic(d, st0, line, endLine, FALSE)
                st1 == IF r.ret THEN r.state ELSE ParagraphRule(d, r.state, line)
            IN tokenize(d, st1, st1.line, endLine)

\* ------------------------------------------------- wikilink renderers
\* RENDERERS["embed_file"] and RENDERERS["internal_link"].
RenderLink(node) ==
    IF node.type = "embed_file"
    THEN <<"!", "[", "[">> \o node.content \o <<"]", "]">>
    ELSE <<"[", "[">> \o node.content \o <<"]", "]">>

\* ------------------------------------------------------ callout renderer
\* s.replace(sub, ""): every occurrence of sub removed, left to right.
RECURSIVE RemoveAll(_, _)
RemoveAll(s, sub) ==
    LET k == IndexOf(s, sub, 0)
    IN IF k = -1 THEN s
       ELSE Slice(s, 0, k) \o RemoveAll(SliceFrom(s, k + Len(sub)), sub)

\* sep.join(parts)
RECURSIVE JoinWith(_, _)
JoinWith(parts, sep) ==
    IF parts = <<>> THEN <<>>
    ELSE IF Len(parts) = 1 THEN parts[1]
    ELSE parts[1] \o sep \o JoinWith(Tail(parts), sep)

\* The elements of a list comprehension that keeps the non-empty renders.
NonEmpty(parts) == SelectSeq(parts, LAMBDA x : x # <<>>)

\* The index of the token that closes the scope toks[1] opens.
RECURSIVE MatchingClose(_, _, _)
MatchingClose(toks, k, depth) ==
    LET d == depth + toks[k].nesting
    IN IF d = 0 THEN k ELSE MatchingClose(toks, k + 1, d)

\* The inline child of a paragraph rendered: the wikilinks and embeds the
\* inline scanner finds, by their renderers, and the text between them.
RECURSIVE InlineRender(_, _)
InlineRender(s, p) ==
    IF p >= Len(s) THEN <<>>
    ELSE LET r == ScanLinks(s, p, FALSE)
         IN IF r.matched THEN RenderLink(r.push[1]) \o InlineRender(s, r.pos)
            ELSE <<s[p + 1]>> \o InlineRender(s, p + 1)

\* A callout rendered with a blank line under its title line.
CalloutTextSeparated(title_line, elements) ==
    RStrip(JoinWith(<<title_line, JoinWith(elements, <<"\n", "\n">>)>>, <<"\n", "\n">>))

\* "\n".join([title_line, "\n\n".join(elements)]).rstrip()
CalloutText(title_line, elements) ==
    RStrip(JoinWith(<<title_line, JoinWith(elements, <<"\n", "\n">>)>>, <<"\n">>))

\* The tree-walking renderer over the nodes a token sequence holds: each
\* node is dispatched on its type through RENDERERS.
RECURSIVE RenderNodes(_)
RenderNode(open, children) ==
    IF open.type = OBSIDIAN_CALLOUT_PREFIX \o "_open"
    THEN \* _render_obsidian_callout
         CalloutText(RemoveAll(open.markup, INLINE_SEP), NonEmpty(RenderNodes(children)))
    ELSE IF open.type = OBSIDIAN_CALLOUT_PREFIX \o "_content_open"
    THEN \* _recursive_render
         RStrip(JoinWith(NonEmpty(RenderNodes(children)), <<"\n", "\n">>))
    ELSE IF open.type = "paragraph_open"
    THEN paragraph(InlineRender(children[1].content, 0))
    ELSE \* _no_render
         <<>>

RenderNodes(toks) ==
    IF toks = <<>> THEN <<>>
    ELSE IF toks[1].nesting = 0 THEN <<toks[1].content>> \o RenderNodes(Tail(toks))
    ELSE LET j == MatchingClose(toks, 1, 0)
         IN <<RenderNode(toks[1], SubSeq(toks, 2, j - 1))>>
            \o RenderNodes(SubSeq(toks, j + 1, Len(toks)))

\* The tokens the last call of alert_logic pushed.
Emitted == SubSeq(bstate.tokens, Len(ccall.pre.tokens) + 1, Len(bstate.tokens))

\* The documents the block parser is run on: an optional paragraph, a header
\* line put together from its parts, and up to MaxBodyLines more lines.
HdrIndent == {<<>>, <<" ", " ", " ", " ">>}
HdrOpen   == {<<"[", "!">>, <<BSL, "[", "!">>, <<"[">>}
HdrKind   == {<<"a">>, <<"A", "b">>}
HdrClose  == {<<"]">>, <<BSL, "]">>, <<>>}
HdrFold   == {<<>>, <<"-">>, <<"+">>}
HdrTail   == {<<>>, <<" ">>, <<" ", "t">>, <<" ", "T", " ">>, <<"x">>,
              <<"<", "b", "r", ">", "t">>}

HeaderLines ==
    {i \o o \o k \o c \o f \o x :
        i \in HdrIndent, o \in HdrOpen, k \in HdrKind, c \in HdrClose,
        f \in HdrFold, x \in HdrTail}

BodyLines ==
    {<<>>, <<"!", "[", "[", "b", "]", "]">>, <<"c", " ", "d">>, <<"[", "!", "a", "]">>}

RECURSIVE Bodies(_)
Bodies(n) ==
    IF n = 0 THEN {<<>>}
    ELSE LET shorter == Bodies(n - 1)
         IN shorter \cup {Append(b, l) : b \in {x \in shorter : Len(x) = n - 1},
                                         l \in BodyLines}

Prefixes == {<<>>, <<<<"a">>, <<>>>>}

CalloutDocs ==
    {pre \o <<h>> \o b : pre \in Prefixes, h \in HeaderLines, b \in Bodies(MaxBodyLines)}

InitCallout ==
    /\ doc \in CalloutDocs
    /\ bstate = [tokens |-> <<>>, parentType |-> "root", lineMax |-> Len(doc), line |-> 0]
    /\ ccall = NoCall
    /\ crender = NoRender
    /\ fsrc = <<>>
    /\ fout = <<>>
    /\ LinksIdle
    /\ ParaIdle
    /\ ListIdle

\* The block rule invoked at the line the host's tokenizer has reached:
\* silently to validate, or to emit.
AlertLogic(silent) ==
    /\ ~(ccall.ret = "False" /\ ~ccall.silent)
    /\ bstate.line < bstate.lineMax
    /\ LET r == alert_logic(doc, bstate, bstate.line, bstate.lineMax, silent)
       IN /\ bstate' = r.state
          /\ ccall' = [ret |-> IF r.ret THEN "True" ELSE "False",
                       silent |-> silent,
                       startLine |-> bstate.line,
                       endLine |-> bstate.lineMax,
                       pre |-> bstate]
    /\ UNCHANGED <<doc, crender, fsrc, fout, linkVars, paraVars, listVars>>

\* The callout rule declined: the host's code or paragraph rule takes the
\* block, and the tokenizer moves to the next line that is not empty.
HostBlock ==
    /\ ccall.ret = "False" /\ ~ccall.silent
    /\ LET st1 == IF is_code_block(doc, bstate.line)
                  THEN CodeRule(doc, bstate, bstate.line, bstate.lineMax)
                  ELSE ParagraphRule(doc, bstate, bstate.line)
       IN bstate' = [st1 EXCEPT !.line = skipEmptyLines(doc, st1.line, st1.lineMax)]
    /\ ccall' = NoCall
    /\ UNCHANGED <<doc, crender, fsrc, fout, linkVars, paraVars, listVars>>

\* The renderer walks the tree and renders the callout just emitted.
RenderCallout ==
    /\ ccall.ret = "True" /\ ~ccall.silent
    /\ ~crender.done
    /\ crender' = [done |-> TRUE, text |-> RenderNodes(Emitted)[1]]
    /\ UNCHANGED <<doc, bstate, ccall, fsrc, fout, linkVars, paraVars, listVars>>

NextCallout ==
    \/ \E silent \in BOOLEAN : AlertLogic(silent)
    \/ HostBlock
    \/ RenderCallout

SpecCallout == InitCallout /\ [][NextCallout]_vars

\* -------------------------------------------------------------- formatter
\* The block parser run over all the lines of a document from the root
\* state: the tokens of the document.
ParseDoc(lines) ==
    tokenize(lines,
             [tokens |-> <<>>, parentType |-> "root", lineMax |-> Len(lines), line |-> 0],
             0, Len(lines)).tokens

\* The blocks rendered and joined by a blank line (the final newline of the
\* output is left out of the lines).
RenderDoc(toks) ==
    SplitLines(JoinWith(NonEmpty(RenderNodes(toks)), <<"\n", "\n">>))

\* The documents that are formatted: an optional paragraph, then a callout
\* whose header the scanner accepts, with or without a closing bracket on the
\* header line, over a body of paragraphs, embeds and nested callouts.  Their
\* text holds no character the host's text renderer would escape.
FormatHeaders ==
    {<<"[", "!">> \o k \o c \o f \o x :
        k \in HdrKind, c \in {<<"]">>, <<>>}, f \in HdrFold, x \in HdrTail}

FormatCallouts ==
    {c \in {<<h>> \o b : h \in FormatHeaders, b \in Bodies(MaxBodyLines)} :
        MatchHeader(JoinLines(c)).matched}

FormatDocs == {pre \o c : pre \in Prefixes, c \in FormatCallouts}

InitFormat ==
    /\ fsrc \in FormatDocs
    /\ fout = <<>>
    /\ doc = <<>>
    /\ bstate = [tokens |-> <<>>, parentType |-> "root", lineMax |-> 0, line |-> 0]
    /\ ccall = NoCall
    /\ crender = NoRender
    /\ LinksIdle
    /\ ParaIdle
    /\ ListIdle

\* The formatter run on the document, and then on its own output: the
\* document is parsed and its tokens are rendered.
Format ==
    /\ Len(fout) < 2
    /\ \E toks \in {ParseDoc(IF fout = <<>> THEN fsrc ELSE fout[Len(fout)])} :
          fout' = Append(fout, RenderDoc(toks))
    /\ UNCHANGED <<fsrc, doc, bstate, ccall, crender, linkVars, paraVars, listVars>>

NextFormat == Format

SpecFormat == InitFormat /\ [][NextFormat]_vars


\* --------------------------------------------- claims: inline scanner
\* The length of the maximal run of backslashes ending immediately before
\* offset i of s, bounded by the start of the buffer.
RECURSIVE BackslashRun(_, _)
BackslashRun(s, i) ==
    IF i > 0 /\ i <= Len(s) /\ s[i] = BSL THEN 1 + BackslashRun(s, i - 1) ELSE 0

\* The text at offset p starts with "[[" or "![[".
HasOpener(s, p) ==
    \/ StartsWith(SliceFrom(s, p), <<"[", "[">>)
    \/ StartsWith(SliceFrom(s, p), <<"!", "[", "[">>)

OpenerLen(s, p) == IF StartsWith(SliceFrom(s, p), <<"!">>) THEN 3 ELSE 2

\* The offsets at or after from where an unescaped "]]" starts.
UnescapedClosings(s, from) ==
    {k \in from..(Len(s) - 2) :
        /\ s[k + 1] = "]" /\ s[k + 2] = "]"
        /\ BackslashRun(s, k) % 2 = 0}

Least(S) == CHOOSE k \in S : \A j \in S : k <= j

\* C4: is_escaped(s, i) with the default parity returns true iff the run of
\* backslashes ending immediately before i has odd length, and false when
\* that run is empty, at every offset 0 <= i <= len(s) of every buffer.
C4_EscapeParity ==
    esc.called =>
        /\ ~esc.raised
        /\ esc.value = (BackslashRun(src, esc.at) % 2 = 1)

\* C5: a non-silent match at p that advances to q emits exactly one node,
\* embed_file if the text at p starts with "!" and internal_link otherwise,
\* whose content is the text strictly between the opening delimiter and the
\* terminating "]]", and rendering the node reproduces src[p:q].
C5_WikilinkRoundTrip ==
    (lret = "True" /\ ~lsilent) =>
        /\ Len(tokens) = lntok + 1
        /\ LET node == tokens[Len(tokens)]
               bang == src[lstart + 1] = "!"
           IN /\ node.type = (IF bang THEN "embed_file" ELSE "internal_link")
              /\ Slice(src, pos - 2, pos) = <<"]", "]">>
              /\ node.content = Slice(src, lstart + (IF bang THEN 3 ELSE 2), pos - 2)
              /\ RenderLink(node) = Slice(src, lstart, pos)

\* A match of an embed whose content is a space.
C5_Witness ==
    /\ lret = "True" /\ ~lsilent
    /\ Len(tokens) = 1
    /\ tokens[1].type = "embed_file"
    /\ tokens[1].content = <<" ">>

\* C6: at an unescaped opener the scanner ends the span at the nearest
\* unescaped "]]" (the first "]]" at or after the end of the opening
\* delimiter not preceded by an odd run of backslashes) and declines only if
\* there is none.
C6_NearestUnescapedTerminator ==
    (lret # "none" /\ HasOpener(src, lstart) /\ BackslashRun(src, lstart) % 2 = 0) =>
        LET closings == UnescapedClosings(src, lstart + OpenerLen(src, lstart))
        IN IF closings = {} THEN lret = "False"
           ELSE lret = "True" /\ pos = Least(closings) + 2

\* C7: the scanner declines, leaving the position and the tokens as they
\* were, when the text does not start with an opener, when the opener is
\* preceded by an odd number of backslashes and when there is no unescaped
\* terminator; whenever it declines nothing changes.
C7_DeclineLeavesState ==
    /\ lret = "False" => (pos = lstart /\ Len(tokens) = lntok)
    /\ (lret # "none" /\ ~HasOpener(src, lstart)) => lret = "False"
    /\ (lret # "none" /\ HasOpener(src, lstart) /\ BackslashRun(src, lstart) % 2 = 1) =>
          (lret = "False" /\ Len(tokens) = lntok)
\* ------------------------------------------------ claims: paragraph
\* The patterns a line must not match, as CommonMark reads them.
LooksATX(l) ==
    \E k \in 1..6 :
        /\ Len(l) >= k
        /\ \A j \in 1..k : l[j] = "#"
        /\ (Len(l) = k \/ l[k + 1] \in {" ", "\t"})

LooksQuote(l) == Len(l) >= 1 /\ l[1] = ">"

LooksBullet(l) ==
    /\ Len(l) >= 1
    /\ l[1] \in {"-", "*", "+"}
    /\ (Len(l) = 1 \/ l[2] \in {" ", "\t"})

\* The offset of the delimiter of an ordered marker the line starts with.
OrderedDelims(l) ==
    {k \in 1..(Len(l) - 1) :
        /\ \A j \in 1..k : l[j] \in Digits
        /\ l[k + 1] \in {")", "."}
        /\ (Len(l) = k + 1 \/ l[k + 2] \in {" ", "\t"})}

LooksOrdered(l) == OrderedDelims(l) # {}

LooksThematic(l) ==
    LET r == SelectSeq(l, LAMBDA c : c \notin {" ", "\t"})
    IN Len(r) >= 3 /\ \E c \in {"*", "-", "_"} : \A j \in 1..Len(r) : r[j] = c

LooksSetext(l) ==
    \E c \in {"-", "="} : \E a \in 1..Len(l) : \E b \in a..Len(l) :
        \A j \in 1..Len(l) :
            IF j < a \/ j > b THEN l[j] \in {" ", "\t"} ELSE l[j] = c

Reinterpretable(l) ==
    \/ LooksATX(l) \/ LooksQuote(l) \/ LooksBullet(l)
    \/ LooksOrdered(l) \/ LooksThematic(l) \/ LooksSetext(l)

\* C2: no line of a rendered paragraph, with its leading indent removed,
\* matches the ATX-heading, block-quote, bullet-marker, ordered-marker,
\* thematic-break or setext-underline pattern.
C2_NoReinterpretableLine ==
    prendered =>
        LET out == SplitLines(pout)
        IN \A k \in 1..Len(out) : ~Reinterpretable(LStrip(out[k]))

\* A thematic break with an inner space, escaped.
C2_Witness ==
    /\ prendered
    /\ ptext = <<"_", " ", "_", "_">>
    /\ pout = <<BSL, "_", " ", "_", "_">>

\* l with a backslash inserted at offset j.
WithBackslashAt(l, j) == Slice(l, 0, j) \o <<BSL>> \o SliceFrom(l, j)

\* What the claim has a line rendered to: the indent, then the content with
\* one backslash before the first matched character if an escape guard
\* matches it (before the delimiter of an ordered marker), unchanged
\* otherwise; a raw-HTML opener is shifted by four spaces instead.
ExpectedLine(line) ==
    LET trimmed == RStrip(line)
        content == LStrip(trimmed)
        indent  == SubSeq(trimmed, 1, Len(trimmed) - Len(content))
        at      == IF LooksOrdered(content) THEN Least(OrderedDelims(content)) ELSE 0
    IN indent \o
       (IF Reinterpretable(content) THEN WithBackslashAt(content, at)
        ELSE IF StartsWith(content, <<"<", "?">>) THEN <<" ", " ", " ", " ">> \o content
        ELSE content)

\* C3: the escape guards insert at most one backslash into a line, right
\* before the first matched character (before the ")" or "." of an ordered
\* marker); the leading indent is kept, and a line no guard matches is
\* emitted as it is but for its trailing whitespace.
C3_GuardsOnlyInsert ==
    prendered =>
        LET in  == ParaLines(ptext)
            out == SplitLines(pout)
        IN /\ Len(out) = Len(in)
           /\ \A k \in 1..Len(in) : out[k] = ExpectedLine(in[k])

\* An indented second line that looks like an ATX heading, escaped after
\* its indent.
C3_Witness ==
    /\ prendered
    /\ ptext = <<"a", "\n", " ", "#">>
    /\ pout = <<"a", "\n", " ", BSL, "#">>
\* ------------------------------------------------ claims: callouts
\* The text of the line the scanner was called at, after its indentation.
CalledLineText == SliceFrom(doc[ccall.startLine + 1], tShift(doc, ccall.startLine))

CalledLineIsCode == tShift(doc, ccall.startLine) >= 4

\* C8: in validate-only mode, and when it declines (the line is in a code
\* block, or the text of the line after its indentation does not match the
\* header pattern), the scanner pushes no token and leaves parentType,
\* lineMax and the scan line as they were; in validate-only mode it returns
\* success exactly when the line is not in a code block and its text matches.
C8_NoSideEffectUnlessEmit ==
    ccall.ret # "none" =>
        LET matches == MatchHeader(CalledLineText).matched
        IN /\ (ccall.silent \/ CalledLineIsCode \/ ~matches) => bstate = ccall.pre
           /\ ccall.silent => ((ccall.ret = "True") <=> (~CalledLineIsCode /\ matches))

\* The names of the scopes open after the tokens toks, from the stack open
\* before them; <<"unbalanced">> if a close token does not close the scope
\* opened last.
ScopeNames ==
    {OBSIDIAN_CALLOUT_PREFIX \o sfx :
        sfx \in {"", "_title", "_title_inner", "_collapsed", "_content"}}
    \cup {"paragraph", "code_block"}

RECURSIVE OpenScopes(_, _)
OpenScopes(toks, stack) ==
    IF toks = <<>> THEN stack
    ELSE LET tk == toks[1]
         IN IF tk.nesting = 1 THEN OpenScopes(Tail(toks), <<tk.type>> \o stack)
            ELSE IF tk.nesting = 0 THEN OpenScopes(Tail(toks), stack)
            ELSE IF stack # <<>> /\ \E nm \in ScopeNames :
                                        /\ stack[1] = nm \o "_open"
                                        /\ tk.type = nm \o "_close"
                 THEN OpenScopes(Tail(toks), Tail(stack))
            ELSE <<"unbalanced">>

TypesOf(toks) == [k \in 1..Len(toks) |-> toks[k].type]

\* The header the scanner matched, read off the source: the kind between
\* "[!" and the first "]", and whether a fold marker follows that "]".
CalledText ==
    SliceFrom(BlockSrc(doc), bMarks(doc, ccall.startLine) + tShift(doc, ccall.startLine))

CalledKind ==
    LET t0 == IF CalledText[1] = BSL THEN 3 ELSE 2
    IN Slice(CalledText, t0, IndexOf(CalledText, <<"]">>, t0))

CalledHasFold ==
    LET close == IndexOf(CalledText, <<"]">>, 0)
    IN close + 1 < Len(CalledText) /\ CalledText[close + 2] \in {"-", "+"}

\* C9: a successful non-validate scan pushes callout open; title open;
\* title-inner open, one inline token, title-inner close; the fold-marker
\* pair iff the header has a fold marker; title close; content open; the
\* tokens of the body lines; content close; callout close, every open token
\* closed in that order.  The callout carries data-callout = the lowercased
\* kind and map [start_line, bodyEndLine); the collapsed class, the fold
\* value "-" and the hidden hint are there iff the callout is folded.
C9_EmissionStructure ==
    (ccall.ret = "True" /\ ~ccall.silent) =>
        LET P     == OBSIDIAN_CALLOUT_PREFIX
            fold  == IF CalledHasFold
                     THEN <<P \o "_collapsed_open", P \o "_collapsed_close">> ELSE <<>>
            head  == <<P \o "_open", P \o "_title_open", P \o "_title_inner_open",
                       "inline", P \o "_title_inner_close">> \o fold
                     \o <<P \o "_title_close", P \o "_content_open">>
            n     == Len(Emitted)
            body  == SubSeq(Emitted, Len(head) + 1, n - 2)
        IN /\ n >= Len(head) + 2
           /\ SubSeq(TypesOf(Emitted), 1, Len(head)) = head
           /\ SubSeq(TypesOf(Emitted), n - 1, n) = <<P \o "_content_close", P \o "_close">>
           /\ OpenScopes(body, <<>>) = <<>>
           /\ OpenScopes(Emitted, <<>>) = <<>>
           /\ \A k \in 1..Len(body) :
                 body[k].map # <<>> =>
                     (body[k].map[1] >= ccall.startLine + 1
                      /\ body[k].map[2] <= ccall.endLine)
           /\ Emitted[1].map = <<ccall.startLine, ccall.endLine>>
           /\ <<"data-callout", Lower(CalledKind)>> \in Emitted[1].attrs
           /\ (<<"class", "callout is-collapsible is-collapsed">> \in Emitted[1].attrs)
                 <=> CalledHasFold
           /\ (<<"class", "callout">> \in Emitted[1].attrs) <=> ~CalledHasFold
           /\ (<<"data-callout-fold", "-">> \in Emitted[1].attrs) <=> CalledHasFold
           /\ (<<"data-callout-fold", "">> \in Emitted[1].attrs) <=> ~CalledHasFold
           /\ (<<"style", "display: none;">> \in Emitted[Len(head)].attrs)
                 <=> CalledHasFold

\* A folded callout emitted with a paragraph and a nested callout in its body.
C9_Witness ==
    /\ ccall.ret = "True" /\ ~ccall.silent
    /\ CalledHasFold
    /\ \E k \in 1..Len(Emitted) : Emitted[k].type = "paragraph_open"
    /\ Cardinality({k \in 1..Len(Emitted) :
                       Emitted[k].type = OBSIDIAN_CALLOUT_PREFIX \o "_open"}) = 2

\* The rendered children of the callout emitted last that are not empty: the
\* title container renders to nothing, the content container to its blocks.
RenderedChildren ==
    NonEmpty(RenderNodes(SubSeq(Emitted, 2, Len(Emitted) - 1)))

\* C10: the rendered callout is the header line (the markup with the
\* internal separator removed), a single newline, and the non-empty rendered
\* children joined by a blank line, with trailing whitespace trimmed from
\* the whole: the first body line follows the header directly, the title
\* container contributes nothing, and a callout with an empty body is its
\* header line with no newline after it.
C10_CalloutLayout ==
    crender.done =>
        LET header   == RemoveAll(Emitted[1].markup, INLINE_SEP)
            children == RenderNodes(SubSeq(Emitted, 2, Len(Emitted) - 1))
            body     == JoinWith(RenderedChildren, <<"\n", "\n">>)
        IN /\ Len(children) = 2 /\ children[1] = <<>>
           /\ IF body = <<>>
              THEN /\ crender.text = RStrip(header)
                   /\ (crender.text = <<>> \/ crender.text[Len(crender.text)] # "\n")
              ELSE /\ crender.text = RStrip(header \o <<"\n">> \o body)
                   /\ Slice(crender.text, 0, Len(header) + 1) = header \o <<"\n">>
                   /\ crender.text[Len(header) + 2] # "\n"

\* A callout with a custom title whose body holds a nested callout with a
\* body of its own, rendered.
C10_Witness ==
    /\ crender.done
    /\ MatchHeader(CalledText).custom_title # <<>>
    /\ IndexOf(MatchHeader(CalledText).title, <<"\n">>, 0) = -1
    /\ RenderedChildren # <<>>
    /\ Cardinality({k \in 1..Len(crender.text) : crender.text[k] = "\n"}) >= 2

\* ------------------------------------------------ claims: formatter
\* C1: formatting is idempotent: formatting the output of a formatting pass
\* gives that output again.
C1_Idempotent == Len(fout) = 2 => fout[2] = fout[1]

\* ------------------------------------------------ claims: scanner state
\* C13: after a successful non-validate scan the line bound is the one saved
\* before the scan, the scan line is bodyEndLine, and parentType is the
\* callout marker that was set before the body was tokenized.
C13_StateProtocol ==
    (ccall.ret = "True" /\ ~ccall.silent) =>
        /\ bstate.lineMax = ccall.pre.lineMax
        /\ bstate.line = ccall.endLine
        /\ bstate.parentType = OBSIDIAN_CALLOUT_PREFIX

\* The text of a header line with its kind, the characters up to the first
\* closing bracket, in lower case.
KindLowered(l) ==
    LET close == IndexOf(l, <<"]">>, 0)
        e     == IF close = -1 THEN Len(l) ELSE close
    IN [k \in 1..Len(l) |-> IF k <= e THEN LowerChar(l[k]) ELSE l[k]]

\* C15: for every line accepted as a header, the header match ends within
\* that line, and the first line of the rendered callout is the text of the
\* line after its indentation with the kind in lower case and trailing
\* whitespace trimmed: nothing of the header line is dropped.
C15_HeaderPreserved ==
    crender.done =>
        /\ MatchHeader(CalledText).end <= Len(CalledLineText)
        /\ SplitLines(crender.text)[1] = RStrip(KindLowered(CalledLineText))

\* ------------------------------------------------------- list renderers
\* The nodes of the render tree under a list.  A paragraph holds the text its
\* inline child renders to; a raising node is a child whose renderer raises;
\* a list holds what the host derives from it: get_list_marker_type(node),
\* is_tight_list(node), node.level and node.attrs.get("start") (-1 for None).
Para(text) == [type |-> "paragraph", text |-> text]

Raising == [type |-> "raising"]

ListItem(children) == [type |-> "list_item", children |-> children]

ListNode(type, level, marker, tight, start, children) ==
    [type |-> type, level |-> level, marker |-> marker, tight |-> tight,
     start |-> start, children |-> children]

\* The value of body for x = v, with v evaluated once.
Bind(v, body(_)) == CHOOSE y \in {body(x) : x \in {v}} : TRUE

\* str(n) for n >= 0
RECURSIVE Str(_)
Str(n) ==
    LET d == <<"0", "1", "2", "3", "4", "5", "6", "7", "8", "9">>[(n % 10) + 1]
    IN IF n < 10 THEN <<d>> ELSE Str(n \div 10) \o <<d>>

\* s.rjust(w, "0")
RECURSIVE RJustZero(_, _)
RJustZero(s, w) == IF Len(s) >= w THEN s ELSE RJustZero(<<"0">> \o s, w)

\* " " * n
Spaces(n) == [k \in 1..n |-> " "]

\* pre_indent = " " * (2 * int(node.level > 0))
pre_indent(node) == Spaces(2 * (IF node.level > 0 THEN 1 ELSE 0))

\* The wrap width of a paragraph: max(1, wrap_mode - env["indent_width"]).
WrapWidth(wrap_mode, indent_width) ==
    IF wrap_mode - indent_width > 1 THEN wrap_mode - indent_width ELSE 1

\* A pad taken from the number of items alone.
PadOfLength(list_len, starting_number) == Len(Str(list_len))

\* pad = len(str(list_len + starting_number - 1))
pad(list_len, starting_number) == Len(Str(list_len + starting_number - 1))

\* The lines of one item under its marker: the first line after the marker
\* and a space, or the marker alone when the first line is empty; each later
\* line after the indent, or empty when it is empty.
FormatItem(first_prefix, indent, item_text) ==
    LET lines == SplitLines(item_text)
    IN JoinLines(
         [k \in 1..Len(lines) |->
            IF k = 1
            THEN IF lines[1] # <<>> THEN first_prefix \o <<" ">> \o lines[1]
                 ELSE first_prefix
            ELSE IF lines[k] # <<>> THEN indent \o lines[k] ELSE <<>>])

\* The wrap option of the run, context.options["mdformat"]["wrap"].
WrapMode == 6

RECURSIVE render(_, _, _), RenderChildren(_, _, _)

\* list_item of the host: the blocks of the item joined by a newline in a
\* tight list and a blank line in a loose one; "" when only whitespace.
list_item(node, tight, budget) ==
    Bind(RenderChildren(node.children, tight, budget),
         LAMBDA r :
            LET text == JoinWith(NonEmpty(r.texts),
                                 IF tight THEN <<"\n">> ELSE <<"\n", "\n">>)
            IN [text |-> IF r.raised \/ Strip(text) = <<>> THEN <<>> ELSE text,
                raised |-> r.raised, budget |-> r.budget, seen |-> r.seen])

\* bullet_list(node, context); context.indented(width) adds width to the
\* budget and takes it off again when the block is left, also by a raise.
bullet_list(node, budget) ==
    LET marker_type       == pre_indent(node) \o <<node.marker>>
        first_line_indent == <<" ">>
        indent            == Spaces(Len(marker_type \o first_line_indent))
        block_separator   == IF node.tight THEN <<"\n">> ELSE <<"\n", "\n">>
    IN Bind(RenderChildren(node.children, node.tight, budget + Len(indent)),
            LAMBDA r :
               [text |-> IF r.raised THEN <<>>
                         ELSE JoinWith([k \in 1..Len(r.texts) |->
                                          FormatItem(marker_type, indent, r.texts[k])],
                                       block_separator),
                raised |-> r.raised,
                budget |-> r.budget - Len(indent),
                seen |-> r.seen])

\* ordered_list(node, context)
ordered_list(node, budget) ==
    LET marker_type     == <<node.marker>>
        block_separator == IF node.tight THEN <<"\n">> ELSE <<"\n", "\n">>
        list_len        == Len(node.children)
        starting_number == IF node.start = -1 THEN 1 ELSE node.start
        indent_width    == Len(Str(list_len + starting_number - 1) \o marker_type \o <<" ">>)
        number_str(idx) == pre_indent(node)
                           \o RJustZero(Str(starting_number + idx),
                                        pad(list_len, starting_number))
    IN Bind(RenderChildren(node.children, node.tight, budget + indent_width),
            LAMBDA r :
               [text |-> IF r.raised THEN <<>>
                         ELSE JoinWith([k \in 1..Len(r.texts) |->
                                          FormatItem(number_str(k - 1) \o marker_type,
                                                     Spaces(indent_width), r.texts[k])],
                                       block_separator),
                raised |-> r.raised,
                budget |-> r.budget - indent_width,
                seen |-> r.seen])

\* node.render(context): the renderer of the node's type.  A paragraph is
\* rendered by paragraph(); the wrap width it reads off the budget is kept in
\* seen, the wrapping itself is the host's.
render(node, tight, budget) ==
    IF node.type = "paragraph"
    THEN [text |-> paragraph(node.text), raised |-> FALSE, budget |-> budget,
          seen |-> <<[budget |-> budget, width |-> WrapWidth(WrapMode, budget)]>>]
    ELSE IF node.type = "list_item" THEN list_item(node, tight, budget)
    ELSE IF node.type = "bullet_list" THEN bullet_list(node, budget)
    ELSE IF node.type = "ordered_list" THEN ordered_list(node, budget)
    ELSE [text |-> <<>>, raised |-> TRUE, budget |-> budget, seen |-> <<>>]

\* The children rendered in order, up to the first that raises.
RenderChildren(nodes, tight, budget) ==
    IF nodes = <<>>
    THEN [texts |-> <<>>, raised |-> FALSE, budget |-> budget, seen |-> <<>>]
    ELSE Bind(render(nodes[1], tight, budget),
              LAMBDA first :
                 IF first.raised
                 THEN [texts |-> <<>>, raised |-> TRUE, budget |-> first.budget,
                       seen |-> first.seen]
                 ELSE Bind(RenderChildren(Tail(nodes), tight, first.budget),
                           LAMBDA rest :
                              [texts |-> <<first.text>> \o rest.texts,
                               raised |-> rest.raised,
                               budget |-> rest.budget,
                               seen |-> first.seen \o rest.seen]))

\* The lists that are rendered.  An item holds up to two leaf blocks and
\* then, down to MaxDepth, a nested list; a list has one such item and
\* possibly a second, plain one.  A nested list lies two levels below; the
\* outermost list comes in every tightness and start, the nested ones in
\* fewer.  A list at level 2 is entered with a budget of 3.
LeafBlocks ==
    {<<>>, <<Para(<<"a">>)>>, <<Para(<<"a", "\n", "b">>)>>, <<Raising>>,
     <<Para(<<"a">>), Para(<<"b">>)>>}

RECURSIVE Lists(_, _, _)
Lists(depth, level, outermost) ==
    LET nested == IF depth = 0 THEN {<<>>}
                  ELSE {<<>>} \cup {<<l>> : l \in Lists(depth - 1, level + 2, FALSE)}
        items  == {<<ListItem(leaf \o n)>> \o second :
                      leaf \in LeafBlocks, n \in nested,
                      second \in {<<>>, <<ListItem(<<Para(<<"a">>)>>)>>}}
        tights == IF outermost THEN BOOLEAN ELSE {FALSE}
        starts == IF outermost THEN {<<TRUE, -1>>, <<TRUE, 9>>, <<FALSE, -1>>, <<FALSE, 9>>}
                  ELSE {<<FALSE, -1>>, <<TRUE, 9>>}
    IN {ListNode("bullet_list", level, "-", tight, -1, c) : tight \in tights, c \in items}
       \cup {ListNode("ordered_list", level, ".", ts[1], ts[2], c) :
                ts \in starts, c \in items}

\* Ordered lists of up to MaxFlatItems one-line items, at several starts.
FlatLists ==
    {ListNode("ordered_list", 0, ".", TRUE, start,
              [k \in 1..n |-> ListItem(<<Para(<<"a">>)>>)]) :
        n \in 1..MaxFlatItems, start \in {-1, 0, 1, 9, 89, 100}}

InitList ==
    /\ \/ lnode \in Lists(MaxDepth, 0, TRUE) \cup FlatLists /\ lbudget = 0
       \/ lnode \in Lists(MaxDepth, 2, TRUE) /\ lbudget = 3
    /\ lres = NoListRender
    /\ LinksIdle
    /\ ParaIdle
    /\ BlockIdle

\* The renderer of the list node called with the context.
RenderList ==
    /\ ~lres.done
    /\ \E r \in {render(lnode, TRUE, lbudget)} :
          /\ lres' = [done |-> TRUE, raised |-> r.raised, text |-> r.text,
                      seen |-> r.seen, before |-> lbudget]
          /\ lbudget' = r.budget
    /\ UNCHANGED <<lnode, linkVars, paraVars, blockVars>>

NextList == RenderList

SpecList == InitList /\ [][NextList]_vars

\* ------------------------------------------------------- claims: lists
\* The number of decimal digits of m.
RECURSIVE DigitCount(_)
DigitCount(m) == IF m < 10 THEN 1 ELSE 1 + DigitCount(m \div 10)

\* The run of digits a line starts with after its leading spaces, and the
\* number it reads as.
DigitRun(line) ==
    LET l == LStrip(line)
    IN SubSeq(l, 1, LeadingRun(l, {"0", "1", "2", "3", "4", "5", "6", "7", "8", "9"}))

RECURSIVE DigitsValue(_)
DigitsValue(ds) ==
    IF ds = <<>> THEN 0
    ELSE 10 * DigitsValue(SubSeq(ds, 1, Len(ds) - 1))
         + (CHOOSE v \in 0..9 : Str(v) = <<ds[Len(ds)]>>)

StartOf(node) == IF node.start = -1 THEN 1 ELSE node.start

\* The non-empty lines of the rendered list.
RenderedLines == SelectSeq(SplitLines(lres.text), LAMBDA l : l # <<>>)

\* The item holds one paragraph of one line.
OneLine(item) ==
    /\ Len(item.children) = 1
    /\ item.children[1].type = "paragraph"
    /\ Len(SplitLines(item.children[1].text)) = 1

\* C11: in an ordered list of n items starting at s (1 without a start
\* attribute), item k is numbered s + k, zero-padded to the number of digits
\* of n + s - 1: the numbers are consecutive and the markers equally wide.
C11_OrderedNumbering ==
    (lres.done /\ ~lres.raised /\ lnode.type = "ordered_list") =>
        LET n     == Len(lnode.children)
            s     == StartOf(lnode)
            w     == DigitCount(n + s - 1)
            lines == RenderedLines
            ok(line, k) == /\ Len(DigitRun(line)) = w
                           /\ DigitsValue(DigitRun(line)) = s + k
        IN /\ ok(lines[1], 0)
           /\ OneLine(lnode.children[n]) => ok(lines[Len(lines)], n - 1)
           /\ Len(lines) = n => \A k \in 0..(n - 1) : ok(lines[k + 1], k)

\* A 12-item list starting at 100, numbered 100 to 111.
C11_Witness ==
    /\ lres.done /\ ~lres.raised
    /\ lnode.type = "ordered_list" /\ Len(lnode.children) = 12 /\ lnode.start = 100
    /\ RenderedLines[1] = <<"1", "0", "0", ".", " ", "a">>
    /\ RenderedLines[12] = <<"1", "1", "1", ".", " ", "a">>

\* The marker of item k (0-based) of a list, with the extra indentation of a
\* nested list: the bullet, or the padded number and its delimiter.
MarkerOfItem(node, k) ==
    LET extra == IF node.level > 0 THEN <<" ", " ">> ELSE <<>>
    IN IF node.type = "bullet_list" THEN extra \o <<node.marker>>
       ELSE extra
            \o RJustZero(Str(StartOf(node) + k),
                         DigitCount(Len(node.children) + StartOf(node) - 1))
            \o <<node.marker>>

\* An item laid out under its marker: marker and a space before the first
\* line (the marker alone before an empty one), as many spaces before every
\* later non-empty line, empty lines left empty.
LaidOut(marker, item_text) ==
    LET lines == SplitLines(item_text)
        width == Len(marker) + 1
    IN JoinLines(
         [k \in 1..Len(lines) |->
            IF lines[k] = <<>> THEN (IF k = 1 THEN marker ELSE <<>>)
            ELSE IF k = 1 THEN marker \o <<" ">> \o lines[k]
            ELSE [j \in 1..width |-> " "] \o lines[k]])

\* C12: each item's first line follows marker plus one space (the marker with
\* the extra indentation of a nested list), every later non-empty line
\* follows spaces of that same width, empty lines stay empty, and the items
\* are joined by a newline in a tight list and a blank line in a loose one.
C12_ContinuationIndent ==
    (lres.done /\ ~lres.raised) =>
        LET n     == Len(lnode.children)
            items == [k \in 1..n |->
                        LaidOut(MarkerOfItem(lnode, k - 1),
                                list_item(lnode.children[k], lnode.tight, 0).text)]
        IN lres.text = JoinWith(items, IF lnode.tight THEN <<"\n">> ELSE <<"\n", "\n">>)

\* The budgets the paragraphs under a node are to see, in rendering order up
\* to the first child that raises, when every list adds the width of its
\* marker plus separator to the budget around it.
RECURSIVE BudgetsUnder(_, _), BudgetsOfAll(_, _)
BudgetsUnder(node, outside) ==
    IF node.type = "paragraph" THEN [seen |-> <<outside>>, raised |-> FALSE]
    ELSE IF node.type = "list_item" THEN BudgetsOfAll(node.children, outside)
    ELSE IF node.type \in {"bullet_list", "ordered_list"}
    THEN BudgetsOfAll(node.children, outside + Len(MarkerOfItem(node, 0)) + 1)
    ELSE [seen |-> <<>>, raised |-> TRUE]

BudgetsOfAll(nodes, outside) ==
    IF nodes = <<>> THEN [seen |-> <<>>, raised |-> FALSE]
    ELSE Bind(BudgetsUnder(nodes[1], outside),
              LAMBDA first :
                 IF first.raised THEN first
                 ELSE Bind(BudgetsOfAll(Tail(nodes), outside),
                           LAMBDA rest : [seen |-> first.seen \o rest.seen,
                                          raised |-> rest.raised]))

\* C14: while a list renders its items the budget nested renderers see is the
\* budget outside plus the width of the list's marker plus separator, a
\* paragraph wrapping at max(1, wrap width - budget); when the list render
\* ends, by returning or by a raise, the budget is what it was before.
C14_BudgetScoped ==
    lres.done =>
        LET e == BudgetsUnder(lnode, lres.before)
        IN /\ lbudget = lres.before
           /\ lres.raised = e.raised
           /\ lres.seen =
                 [k \in 1..Len(e.seen) |->
                    [budget |-> e.seen[k],
                     width |-> IF WrapMode - e.seen[k] >= 1
                               THEN WrapMode - e.seen[k] ELSE 1]]
====
